---- MODULE Spec2Model ----
(***************************************************************************)
(* Model of the diosix container entrypoint, in its two variants:          *)
(*   src/entrypoint.py          ("root")                                   *)
(*   src/docker/entrypoint.py   ("docker")                                 *)
(* One run of one variant is one behaviour: the interpreter evaluates the  *)
(* K_SERVICE test, takes one branch, and (docker variant) either hands a   *)
(* composed command string to /bin/sh through os.system or starts the      *)
(* Flask development server with app.run.                                  *)
(*                                                                         *)
(* Strings read from the environment are sequences of one-character        *)
(* strings, so emptiness, whitespace and integer parsing are computed.     *)
(* Shell command strings are sequences of lexemes (words, operators and    *)
(* the blank " "), so joining and the shell's tokenising are computed.     *)
(***************************************************************************)
EXTENDS Integers, Sequences, FiniteSets, TLC

VARIABLES
    variant,      \* which entrypoint file is being run
    environ,      \* os.environ: function from the names that are set to their values
    argv,         \* sys.argv: program name followed by the caller's arguments
    pc,           \* position of the interpreter
    mode,         \* branch of the K_SERVICE test that was taken ("none" before it)
    out,          \* lines printed to stdout, in order
    systemCalls,  \* command strings handed to os.system, in order
    sh,           \* state of the /bin/sh process started by os.system
    started,      \* simple commands the shell has started, with the context they saw
    port,         \* value passed as port= to app.run (a Python value)
    urlMap,       \* rules registered on the Flask app by @app.route
    responses,    \* requests answered by the server, with their responses
    exc,          \* uncaught exception that ended the run ("none" if none)
    exitStatus    \* exit status of the entrypoint process (-1 while running)

vars == <<variant, environ, argv, pc, mode, out, systemCalls, sh, started,
          port, urlMap, responses, exc, exitStatus>>

(***************************************************************************)
(* Bounds                                                                  *)
(***************************************************************************)
MaxArgs == 3
MaxRequests == 2

(***************************************************************************)
(* Python values                                                           *)
(***************************************************************************)
None == [t |-> "none"]
PyStr(s) == [t |-> "str", s |-> s]
PyNum(i) == [t |-> "int", i |-> i]

\* os.environ.get(key, default)
EnvGet(e, key, default) == IF key \in DOMAIN e THEN PyStr(e[key]) ELSE default

\* bool(v), as used by `not v`
Truthy(v) ==
    CASE v.t = "none" -> FALSE
      [] v.t = "str"  -> Len(v.s) > 0
      [] v.t = "int"  -> v.i # 0

\* v != '' : None is not equal to the empty string
PyNeEmptyStr(v) == ~(v.t = "str" /\ v.s = <<>>)

Digits == {"0", "1", "2", "3", "4", "5", "6", "7", "8", "9"}

DigitVal(c) ==
    CASE c = "0" -> 0 [] c = "1" -> 1 [] c = "2" -> 2 [] c = "3" -> 3
      [] c = "4" -> 4 [] c = "5" -> 5 [] c = "6" -> 6 [] c = "7" -> 7
      [] c = "8" -> 8 [] c = "9" -> 9

RECURSIVE NatOf(_)
NatOf(s) == IF s = <<>> THEN 0
            ELSE 10 * NatOf(SubSeq(s, 1, Len(s) - 1)) + DigitVal(s[Len(s)])

AllDigits(s) == Len(s) > 0 /\ \A i \in 1..Len(s) : s[i] \in Digits

RECURSIVE LStrip(_)
LStrip(s) == IF s # <<>> /\ Head(s) = " " THEN LStrip(Tail(s)) ELSE s

RECURSIVE RStrip(_)
RStrip(s) == IF s # <<>> /\ s[Len(s)] = " " THEN RStrip(SubSeq(s, 1, Len(s) - 1)) ELSE s

PyStrip(s) == RStrip(LStrip(s))

\* int(v): an int is returned as is; a string is stripped of surrounding
\* blanks, may carry one sign, and must then be all digits, else ValueError.
PyInt(v) ==
    IF v.t = "int" THEN [ok |-> TRUE, i |-> v.i]
    ELSE LET s == PyStrip(v.s)
             signed == s # <<>> /\ Head(s) \in {"+", "-"}
             body == IF signed THEN Tail(s) ELSE s
         IN  IF AllDigits(body)
             THEN [ok |-> TRUE,
                   i |-> IF signed /\ Head(s) = "-" THEN 0 - NatOf(body) ELSE NatOf(body)]
             ELSE [ok |-> FALSE, i |-> 0]

\* ' '.join(xs) on lexeme sequences
RECURSIVE Join(_, _)
Join(sep, xs) ==
    IF xs = <<>> THEN <<>>
    ELSE IF Len(xs) = 1 THEN <<xs[1]>>
    ELSE <<xs[1], sep>> \o Join(sep, Tail(xs))

(***************************************************************************)
(* /bin/sh -c <string>, as started by os.system                            *)
(***************************************************************************)
ShellOps == {"&&", "||", ";"}

\* The shell splits the string at blanks.
Tokens(str) == SelectSeq(str, LAMBDA c : c # " ")

\* The whole line is parsed before anything runs.  Every operator needs a
\* command before it; && and || also need one after it.
SyntaxOk(t) ==
    \A i \in 1..Len(t) :
        t[i] \in ShellOps =>
            /\ i > 1 /\ t[i - 1] \notin ShellOps
            /\ t[i] \in {"&&", "||"} => (i < Len(t) /\ t[i + 1] \notin ShellOps)

\* Length of the simple command at the head of t (its words up to the next operator).
RECURSIVE CmdLen(_)
CmdLen(t) == IF t = <<>> \/ Head(t) \in ShellOps THEN 0 ELSE 1 + CmdLen(Tail(t))

DropCmd(t) == SubSeq(t, CmdLen(t) + 1, Len(t))

\* What is left to run after a simple command ended with `status`:
\* `;` always goes on, `&&` goes on after success, `||` after failure;
\* a command that is not run leaves the status as it is.
RECURSIVE AfterCmd(_, _)
AfterCmd(t, status) ==
    IF t = <<>> THEN <<>>
    ELSE IF Head(t) = ";" THEN Tail(t)
    ELSE IF (Head(t) = "&&" /\ status = 0) \/ (Head(t) = "||" /\ status # 0)
         THEN Tail(t)
         ELSE AfterCmd(DropCmd(Tail(t)), status)

ShIdle == [state |-> "idle", rest |-> <<>>, status |-> 0,
           sourced |-> FALSE, cwd |-> FALSE]

\* The shell process right after it has read its -c string.
ShStart(str) ==
    IF SyntaxOk(Tokens(str))
    THEN [state |-> "running", rest |-> Tokens(str), status |-> 0,
          sourced |-> FALSE, cwd |-> FALSE]
    ELSE [state |-> "syntax_error", rest |-> <<>>, status |-> 2,
          sourced |-> FALSE, cwd |-> FALSE]

\* Outcomes of one simple command.  `.` of the toolchain script and `cd` to
\* the project directory depend on the container image: the script may be
\* sourced, may end with a failure, or may be missing (a POSIX shell then
\* exits, others go on with a failure status); the directory may be missing.
CmdOutcomes(name) ==
    CASE name = "."     -> {"ok", "fail", "abort"}
      [] name = "cd"    -> {"ok", "fail"}
      [] name = "true"  -> {"ok"}
      [] name = "false" -> {"fail"}

OutcomeStatus(o) == CASE o = "ok" -> 0 [] o = "fail" -> 1 [] o = "abort" -> 2

\* The shell after its head command ended with outcome o.
ShAfter(s, name, o) ==
    [state   |-> IF o = "abort" \/ AfterCmd(DropCmd(s.rest), OutcomeStatus(o)) = <<>>
                 THEN "done" ELSE "running",
     rest    |-> IF o = "abort" THEN <<>>
                 ELSE AfterCmd(DropCmd(s.rest), OutcomeStatus(o)),
     status  |-> OutcomeStatus(o),
     sourced |-> s.sourced \/ (name = "." /\ o = "ok"),
     cwd     |-> s.cwd \/ (name = "cd" /\ o = "ok")]

(***************************************************************************)
(* The Flask application                                                   *)
(***************************************************************************)
MESSAGE == "Container built. Use docker images and docker run in the Google Cloud shell to run this container.\n"

\* View function of the only route: reads nothing, returns the constant.
ContainerService == MESSAGE

\* Variant that registers the view under another path.
AppRouteOtherPath == {[rule |-> "/x", methods |-> {"GET", "HEAD"}, view |-> "ContainerService"]}

\* @app.route('/') without methods= registers the rule for GET; Flask adds
\* HEAD to every rule that has GET.
AppRoute == {[rule |-> "/", methods |-> {"GET", "HEAD"}, view |-> "ContainerService"]}

\* Request dispatch: 404 without a matching rule, 405 when the rule does not
\* allow the method, else the view's text with 200 (HEAD: without the body).
Dispatch(rules, method, path) ==
    IF ~\E r \in rules : r.rule = path
    THEN [status |-> 404, body |-> ""]
    ELSE IF ~\E r \in rules : r.rule = path /\ method \in r.methods
    THEN [status |-> 405, body |-> ""]
    ELSE [status |-> 200, body |-> IF method = "HEAD" THEN "" ELSE ContainerService]

DefaultPort == 8080

\* Ports a socket can be bound to; bind() raises OverflowError outside.
PortRange == 0..(2^16 - 1)

(***************************************************************************)
(* Inputs                                                                  *)
(***************************************************************************)
Variants == {"root", "docker"}

EnvValues(name) ==
    IF name = "K_SERVICE" THEN {<<>>, <<" ">>, <<"s">>}
    ELSE {<<>>, <<"9", "0">>, <<"a">>, <<"-", "5">>, <<" ", "7">>}

EnvNames == {"K_SERVICE", "PORT"}

AllEnvValues == UNION {EnvValues(n) : n \in EnvNames}

Environs ==
    UNION {{e \in [D -> AllEnvValues] : \A k \in D : e[k] \in EnvValues(k)} :
           D \in SUBSET EnvNames}

ArgWords == {"true", "false", ";", "||"}

ArgLists == UNION {[1..n -> ArgWords] : n \in 0..MaxArgs}

Methods == {"GET", "HEAD", "POST"}
Paths == {"/", "/x"}

\* First line printed by each branch (the HTTP line differs in wording between
\* the variants; only which branch printed matters here).
LOCAL_MSG == "Running locally"
HTTP_MSG == "Running HTTP service"

(***************************************************************************)
(* The K_SERVICE test of each variant                                      *)
(***************************************************************************)
\* src/entrypoint.py: if (os.environ.get('K_SERVICE')) != '':
RootIsServerless(e) == PyNeEmptyStr(EnvGet(e, "K_SERVICE", None))

\* Variant of the test that strips the value first: `not value.strip()`.
DockerIsLocalStrip(e) ==
    LET v == EnvGet(e, "K_SERVICE", None)
    IN  IF v.t = "none" THEN TRUE ELSE PyStrip(v.s) = <<>>

\* src/docker/entrypoint.py: if not os.environ.get('K_SERVICE'):
DockerIsLocal(e) == ~Truthy(EnvGet(e, "K_SERVICE", None))

\* '. $HOME/.cargo/env && cd /diosix && {}'.format(' '.join(sys.argv[1:]))
SystemCommand(av) ==
    <<".", " ", "$HOME/.cargo/env", " ", "&&", " ", "cd", " ", "/diosix", " ", "&&", " ">>
        \o Join(" ", Tail(av))

(***************************************************************************)
(* Initial states: any variant, environment and argument list              *)
(***************************************************************************)
Init ==
    /\ variant \in Variants
    /\ environ \in Environs
    /\ argv \in {<<"entrypoint.py">> \o a : a \in ArgLists}
    /\ pc = "start"
    /\ mode = "none"
    /\ out = <<>>
    /\ systemCalls = <<>>
    /\ sh = ShIdle
    /\ started = <<>>
    /\ port = None
    /\ urlMap = {}
    /\ responses = <<>>
    /\ exc = "none"
    /\ exitStatus = -1

(***************************************************************************)
(* src/entrypoint.py                                                       *)
(***************************************************************************)
\* The first branch only prints; the Flask code under it is commented out.
RootServerless ==
    /\ pc = "start" /\ variant = "root"
    /\ RootIsServerless(environ)
    /\ mode' = "Serverless"
    /\ out' = Append(out, HTTP_MSG)
    /\ pc' = "end"
    /\ UNCHANGED <<variant, environ, argv, systemCalls, sh, started, port,
                   urlMap, responses, exc, exitStatus>>

\* The else branch only prints; the os.popen code under it is commented out.
RootLocal ==
    /\ pc = "start" /\ variant = "root"
    /\ ~RootIsServerless(environ)
    /\ mode' = "Local"
    /\ out' = Append(out, LOCAL_MSG)
    /\ pc' = "end"
    /\ UNCHANGED <<variant, environ, argv, systemCalls, sh, started, port,
                   urlMap, responses, exc, exitStatus>>

(***************************************************************************)
(* src/docker/entrypoint.py                                                *)
(***************************************************************************)
\* print('Running locally'); os.system(...) starts /bin/sh on the composed string.
DockerLocal ==
    /\ pc = "start" /\ variant = "docker"
    /\ DockerIsLocal(environ)
    /\ mode' = "Local"
    /\ out' = Append(out, LOCAL_MSG)
    /\ systemCalls' = Append(systemCalls, SystemCommand(argv))
    /\ sh' = ShStart(SystemCommand(argv))
    /\ pc' = "system"
    /\ UNCHANGED <<variant, environ, argv, started, port, urlMap, responses,
                   exc, exitStatus>>

\* The shell runs the simple command at the head of what is left.
ShellStep ==
    /\ pc = "system" /\ sh.state = "running"
    /\ LET name == Head(sh.rest) IN
       \E o \in CmdOutcomes(name) :
          /\ started' = Append(started, [cmd |-> name, sourced |-> sh.sourced,
                                         cwd |-> sh.cwd, outcome |-> o])
          /\ sh' = ShAfter(sh, name, o)
    /\ UNCHANGED <<variant, environ, argv, pc, mode, out, systemCalls, port,
                   urlMap, responses, exc, exitStatus>>

\* os.system returns when the shell has exited; its return value is dropped.
SystemReturn ==
    /\ pc = "system" /\ sh.state \in {"done", "syntax_error"}
    /\ pc' = "end"
    /\ UNCHANGED <<variant, environ, argv, mode, out, systemCalls, sh, started,
                   port, urlMap, responses, exc, exitStatus>>

\* The else branch up to the call of app.run: print, Flask(__name__),
\* @app.route('/'), and the evaluation of int(os.environ.get('PORT', 8080)),
\* whose ValueError nothing catches.
DockerServerlessBody ==
    /\ mode' = "Serverless"
    /\ out' = Append(out, HTTP_MSG)
    /\ urlMap' = AppRoute
    /\ LET p == PyInt(EnvGet(environ, "PORT", PyNum(DefaultPort))) IN
       IF p.ok
       THEN /\ port' = PyNum(p.i)
            /\ pc' = "app_run"
            /\ UNCHANGED <<exc, exitStatus>>
       ELSE /\ exc' = "ValueError"
            /\ exitStatus' = 1
            /\ pc' = "exited"
            /\ UNCHANGED port
    /\ UNCHANGED <<variant, environ, argv, systemCalls, sh, started, responses>>

\* Variant without the `else:`: the HTTP code also runs after the local branch.
DockerServerlessNoElse ==
    /\ variant = "docker"
    /\ \/ pc = "start" /\ ~DockerIsLocal(environ)
       \/ pc = "end" /\ mode = "Local"
    /\ DockerServerlessBody

DockerServerless ==
    /\ pc = "start" /\ variant = "docker"
    /\ ~DockerIsLocal(environ)
    /\ DockerServerlessBody

\* app.run binds host 0.0.0.0 and the port.  A port outside the socket range
\* raises OverflowError; a port in range may still be refused (in use, not
\* permitted).  Either ends the process with status 1.
Bind ==
    /\ pc = "app_run"
    /\ \E free \in BOOLEAN :
          IF port.i \in PortRange /\ free
          THEN /\ pc' = "serving"
               /\ UNCHANGED <<exc, exitStatus>>
          ELSE /\ exc' = IF port.i \in PortRange THEN "OSError" ELSE "OverflowError"
               /\ exitStatus' = 1
               /\ pc' = "exited"
    /\ UNCHANGED <<variant, environ, argv, mode, out, systemCalls, sh, started,
                   port, urlMap, responses>>

\* Variant that handles one request and then returns from app.run.
RequestOnce ==
    /\ pc = "serving"
    /\ Len(responses) < MaxRequests
    /\ \E m \in Methods, p \in Paths :
          responses' = Append(responses,
                              [method |-> m, path |-> p, resp |-> Dispatch(urlMap, m, p)])
    /\ pc' = "end"
    /\ UNCHANGED <<variant, environ, argv, mode, out, systemCalls, sh, started,
                   port, urlMap, exc, exitStatus>>

\* The server answers one request and goes on serving.
Request ==
    /\ pc = "serving"
    /\ Len(responses) < MaxRequests
    /\ \E m \in Methods, p \in Paths :
          responses' = Append(responses,
                              [method |-> m, path |-> p, resp |-> Dispatch(urlMap, m, p)])
    /\ pc' = "serving"
    /\ UNCHANGED <<variant, environ, argv, mode, out, systemCalls, sh, started,
                   port, urlMap, exc, exitStatus>>

\* The interpreter reaches the end of the script.
Exit ==
    /\ pc = "end"
    /\ pc' = "exited"
    /\ exitStatus' = 0
    /\ UNCHANGED <<variant, environ, argv, mode, out, systemCalls, sh, started,
                   port, urlMap, responses, exc>>

\* The platform or a signal ends the process from outside.
Kill ==
    /\ pc \in {"system", "serving"}
    /\ pc' = "killed"
    /\ UNCHANGED <<variant, environ, argv, mode, out, systemCalls, sh, started,
                   port, urlMap, responses, exc, exitStatus>>

Next ==
    \/ RootServerless
    \/ RootLocal
    \/ DockerLocal
    \/ ShellStep
    \/ SystemReturn
    \/ DockerServerless
    \/ Bind
    \/ Request
    \/ Exit
    \/ Kill

Spec == Init /\ [][Next]_vars

TypeOK ==
    /\ variant \in Variants
    /\ pc \in {"start", "system", "app_run", "serving", "end", "exited", "killed"}
    /\ mode \in {"none", "Local", "Serverless"}
    /\ exc \in {"none", "ValueError", "OSError", "OverflowError"}
    /\ exitStatus \in {-1, 0, 1}
    /\ Len(responses) <= MaxRequests

(***************************************************************************)
(* Properties                                                              *)
(***************************************************************************)
Range(f) == {f[i] : i \in DOMAIN f}

KServiceEmptyOrAbsent == "K_SERVICE" \notin DOMAIN environ \/ environ["K_SERVICE"] = <<>>

\* C1: whenever K_SERVICE is absent or the empty string, the branch taken is
\* the local one ('Running locally'), in both variants.
C1_LocalWhenAbsentOrEmpty ==
    (mode # "none" /\ KServiceEmptyOrAbsent) => (mode = "Local" /\ out = <<LOCAL_MSG>>)

\* C2: whenever K_SERVICE is set to a non-empty string, blanks included, the
\* branch taken is the HTTP-service one, in both variants.
C2_ServerlessWhenNonEmpty ==
    (mode # "none" /\ ~KServiceEmptyOrAbsent) => (mode = "Serverless" /\ out = <<HTTP_MSG>>)

C2_Witness ==
    /\ mode = "Serverless"
    /\ "K_SERVICE" \in DOMAIN environ /\ environ["K_SERVICE"] = <<" ">>
    /\ pc = "serving"

\* C3: the two branches never both run, one of them is taken as soon as the
\* test has been evaluated, a run that took one shows none of the effects of
\* the other, and the branch taken never changes.
C3_OneModeForever ==
    /\ [](/\ ~(LOCAL_MSG \in Range(out) /\ HTTP_MSG \in Range(out))
          /\ pc # "start" => mode \in {"Local", "Serverless"}
          /\ mode = "Local" => (urlMap = {} /\ port = None /\ responses = <<>>)
          /\ mode = "Serverless" => (systemCalls = <<>> /\ started = <<>>))
    /\ [][mode # "none" => mode' = mode]_vars

C3_Witness ==
    /\ pc = "exited" /\ mode = "Local"
    /\ Len(systemCalls) = 1 /\ Len(started) >= 3

IsUserCmd(name) == name \notin {".", "cd"}

\* C4: the shell sources the toolchain script, then changes directory, then
\* runs the caller's command; no part of the caller's command starts unless
\* both setup steps have succeeded before it.
C4_SetupBeforeCommand ==
    \A i \in DOMAIN started :
        /\ started[i].cmd = "cd" => started[i].sourced
        /\ IsUserCmd(started[i].cmd) => (started[i].sourced /\ started[i].cwd)

IsSuffix(x, y) == Len(x) <= Len(y) /\ SubSeq(y, Len(y) - Len(x) + 1, Len(y)) = x

\* C5: a finished local run has handed the joined arguments to the shell
\* exactly once; a serverless run never hands anything to the shell.
C5_CommandExactlyOnce ==
    /\ (pc = "exited" /\ mode = "Local") =>
           (Len(systemCalls) = 1 /\ IsSuffix(Join(" ", Tail(argv)), systemCalls[1]))
    /\ mode = "Serverless" => (systemCalls = <<>> /\ started = <<>>)

\* The port the listener is to use: the value of PORT when it parses as a
\* non-negative integer, else 8080.
ExpectedPort(e) ==
    LET p == PyInt(EnvGet(e, "PORT", PyNum(DefaultPort)))
    IN  IF p.ok /\ p.i >= 0 THEN p.i ELSE DefaultPort

\* C6: once the serverless branch of the docker variant has read PORT, the
\* listener port is that value or 8080, and no PORT value makes the run fail.
C6_PortOrDefault ==
    (variant = "docker" /\ mode = "Serverless") =>
        (exc # "ValueError" /\ port.t = "int" /\ port.i = ExpectedPort(environ))

\* C7: a serving process stays serving; the only way out is termination
\* from outside.
C7_ServingForever == [][pc = "serving" => pc' \in {"serving", "killed"}]_vars

C7_Witness == pc = "serving" /\ Len(responses) = 1 /\ port.i = DefaultPort

\* C8: with no arguments the shell command handed over by the local branch is
\* accepted by the shell: the toolchain script is the first thing it runs,
\* and with both setup steps done its status is 0.
C8_EmptyCommandAccepted ==
    (pc = "exited" /\ mode = "Local" /\ Tail(argv) = <<>> /\ systemCalls # <<>>) =>
        /\ sh.state = "done"
        /\ started # <<>> /\ started[1].cmd = "."
        /\ (sh.sourced /\ sh.cwd) => sh.status = 0

\* C9: a local run exits with status 0; the entrypoint exits non-zero only
\* when the bind of the HTTP listener failed.
C9_ExitStatus ==
    pc = "exited" =>
        /\ mode = "Local" => exitStatus = 0
        /\ exitStatus # 0 => exc \in {"OSError", "OverflowError"}

====
